---- MODULE Spec2Model ----
(***************************************************************************)
(* A model of timetable.py: the script reads the rows of a CSV trace,      *)
(* keeps the 'taskdebug' rows as events, sorts and groups them by          *)
(* (gtid, name), assigns every distinct name a colour and draws one        *)
(* broken_barh per group followed by the legend.                           *)
(*                                                                         *)
(* A Python str is modelled as a sequence of one-character strings, so     *)
(* that int(), str.split and the ordering of strings are computed and not  *)
(* assumed.  A float is modelled as the exact fraction <<num, den>> in     *)
(* lowest terms with den > 0.                                              *)
(***************************************************************************)
EXTENDS Integers, Sequences, FiniteSets, TLC

(***************************************************************************)
(* Bound of the model: the number of rows of the input file.               *)
(***************************************************************************)
MaxRows == 3

----------------------------------------------------------------------------
(* Python str: ordering by code point, strip, split.                       *)

CodePoint ==
  [c \in {" ", "+", "-", "0", "1", "2", "3", "4", "5", "6", "7", "8", "9",
          ";", "_", "a", "b", "f", "g", "h", "x"} |->
     CASE c = " " -> 32 [] c = "+" -> 43 [] c = "-" -> 45
       [] c = "0" -> 48 [] c = "1" -> 49 [] c = "2" -> 50 [] c = "3" -> 51
       [] c = "4" -> 52 [] c = "5" -> 53 [] c = "6" -> 54 [] c = "7" -> 55
       [] c = "8" -> 56 [] c = "9" -> 57 [] c = ";" -> 59 [] c = "_" -> 95
       [] c = "a" -> 97 [] c = "b" -> 98 [] c = "f" -> 102 [] c = "g" -> 103
       [] c = "h" -> 104 [] c = "x" -> 120]

\* a < b for two str, as Python compares them: code point by code point,
\* a proper prefix being the smaller.
RECURSIVE StrLess(_, _)
StrLess(a, b) ==
  IF b = <<>> THEN FALSE
  ELSE IF a = <<>> THEN TRUE
  ELSE IF Head(a) = Head(b) THEN StrLess(Tail(a), Tail(b))
  ELSE CodePoint[Head(a)] < CodePoint[Head(b)]

RECURSIVE LStrip(_)
LStrip(s) == IF s /= <<>> /\ Head(s) = " " THEN LStrip(Tail(s)) ELSE s

RECURSIVE RStrip(_)
RStrip(s) ==
  IF s /= <<>> /\ s[Len(s)] = " " THEN RStrip(SubSeq(s, 1, Len(s) - 1)) ELSE s

\* s.split(sep=c): the list of the pieces of s between the occurrences of c;
\* a str without c gives the one-element list [s].
RECURSIVE SplitFrom(_, _, _)
SplitFrom(s, c, cur) ==
  IF s = <<>> THEN <<cur>>
  ELSE IF Head(s) = c THEN <<cur>> \o SplitFrom(Tail(s), c, <<>>)
  ELSE SplitFrom(Tail(s), c, Append(cur, Head(s)))

Split(s, c) == SplitFrom(s, c, <<>>)

----------------------------------------------------------------------------
(* int(str): surrounding whitespace is dropped, one sign is allowed, then  *)
(* decimal digits, single underscores allowed between digits.  The result  *)
(* is [ok |-> FALSE] where Python raises ValueError.                       *)

IsDigit(c) == c \in {"0", "1", "2", "3", "4", "5", "6", "7", "8", "9"}

DigitVal(c) == CodePoint[c] - CodePoint["0"]

RECURSIVE DigitsOk(_)
DigitsOk(s) ==
  \* s starts right after a digit
  IF s = <<>> THEN TRUE
  ELSE IF IsDigit(Head(s)) THEN DigitsOk(Tail(s))
  ELSE IF Head(s) = "_"
       THEN Tail(s) /= <<>> /\ IsDigit(Head(Tail(s))) /\ DigitsOk(Tail(s))
  ELSE FALSE

RECURSIVE DigitsVal(_, _)
DigitsVal(s, acc) ==
  IF s = <<>> THEN acc
  ELSE IF Head(s) = "_" THEN DigitsVal(Tail(s), acc)
  ELSE DigitsVal(Tail(s), 10 * acc + DigitVal(Head(s)))

ParseInt(s) ==
  LET t    == RStrip(LStrip(s))
      sgn  == t /= <<>> /\ Head(t) \in {"+", "-"}
      neg  == t /= <<>> /\ Head(t) = "-"
      body == IF sgn THEN Tail(t) ELSE t
  IN  IF body /= <<>> /\ IsDigit(Head(body)) /\ DigitsOk(Tail(body))
      THEN [ok |-> TRUE,
            val |-> IF neg THEN 0 - DigitsVal(body, 0) ELSE DigitsVal(body, 0)]
      ELSE [ok |-> FALSE, val |-> 0]

\* str(int) for the worker ids of the tick labels
RECURSIVE NatStr(_)
NatStr(n) ==
  LET d == <<"0", "1", "2", "3", "4", "5", "6", "7", "8", "9">>[(n % 10) + 1]
  IN  IF n < 10 THEN <<d>> ELSE Append(NatStr(n \div 10), d)

IntStr(n) == IF n < 0 THEN <<"-">> \o NatStr(0 - n) ELSE NatStr(n)

----------------------------------------------------------------------------
(* Floats as exact fractions.                                              *)

RECURSIVE GCD(_, _)
GCD(a, b) == IF b = 0 THEN a ELSE GCD(b, a % b)

Abs(n) == IF n < 0 THEN 0 - n ELSE n

\* num/den in lowest terms, den > 0 (den /= 0 is the caller's duty)
Frac(num, den) ==
  LET g == GCD(Abs(num), Abs(den))
      s == IF den < 0 THEN 0 - 1 ELSE 1
  IN  <<(s * num) \div g, (s * den) \div g>>

FAdd(x, y) == Frac(x[1] * y[2] + y[1] * x[2], x[2] * y[2])
FSub(x, y) == Frac(x[1] * y[2] - y[1] * x[2], x[2] * y[2])
FLess(x, y) == x[1] * y[2] < y[1] * x[2]
FLeq(x, y) == x[1] * y[2] <= y[1] * x[2]

\* x / y for floats: ZeroDivisionError when y is 0
FDiv(x, y) ==
  IF y[1] = 0 THEN [exc |-> "ZeroDivisionError", val |-> <<0, 1>>]
  ELSE [exc |-> "", val |-> Frac(x[1] * y[2], x[2] * y[1])]

----------------------------------------------------------------------------
(* Python lists, sets and dicts.                                           *)

Range(seq) == {seq[i] : i \in 1..Len(seq)}

\* list.index: the 0-based position of the first x, -1 where Python raises
\* ValueError
Index(seq, x) ==
  IF x \in Range(seq)
  THEN (CHOOSE i \in 1..Len(seq) :
          seq[i] = x /\ \A j \in 1..(i - 1) : seq[j] /= x) - 1
  ELSE 0 - 1

\* sorted(list(S)) of a set of str: its elements are distinct, so the order
\* in which list() enumerates the set does not show in the result
SortStrs(S) ==
  LET pos(x) == 1 + Cardinality({y \in S : StrLess(y, x)})
  IN  [p \in 1..Cardinality(S) |-> CHOOSE x \in S : pos(x) = p]

\* sorted(list(S)) of a set of ints
SortInts(S) ==
  LET pos(x) == 1 + Cardinality({y \in S : y < x})
  IN  [p \in 1..Cardinality(S) |-> CHOOSE x \in S : pos(x) = p]

\* d[k] = v on a dict kept as the list of its (key, value) items in
\* insertion order: a present key keeps its place
DictSet(d, k, v) ==
  IF \E i \in 1..Len(d) : d[i][1] = k
  THEN [i \in 1..Len(d) |-> IF d[i][1] = k THEN <<k, v>> ELSE d[i]]
  ELSE Append(d, <<k, v>>)

DictKeys(d) == [i \in 1..Len(d) |-> d[i][1]]

DictGet(d, k) == d[CHOOSE i \in 1..Len(d) : d[i][1] = k][2]

\* list(set(xs)) for a list of ints: CPython adds the keys one by one to a
\* table of 8 slots (a set of fewer than 5 keys is never resized) and
\* list() reads the slots in order.  A key goes to slot hash & 7; on a
\* collision the next slot is (5*i + 1 + perturb) & 7 with perturb, the
\* unsigned 64-bit hash, shifted right by 5 at every step.
Hash(n) == IF n = 0 - 1 THEN 0 - 2 ELSE n

RECURSIVE SetProbe(_, _, _, _, _)
SetProbe(table, key, i, perturb, shifts) ==
  IF table[i + 1] = <<>> THEN [table EXCEPT ![i + 1] = <<key>>]
  ELSE IF table[i + 1] = <<key>> THEN table
  ELSE LET p == IF shifts >= 12 THEN 0 ELSE perturb \div 32
       IN  SetProbe(table, key, (5 * i + 1 + p) % 8, p, shifts + 1)

SetAdd(table, key) == SetProbe(table, key, Hash(key) % 8, Hash(key), 0)

RECURSIVE SetFromList(_, _)
SetFromList(xs, table) ==
  IF xs = <<>> THEN table
  ELSE SetFromList(Tail(xs), SetAdd(table, Head(xs)))

RECURSIVE Flatten(_)
Flatten(table) ==
  IF table = <<>> THEN <<>> ELSE Head(table) \o Flatten(Tail(table))

EmptyTable == <<<<>>, <<>>, <<>>, <<>>, <<>>, <<>>, <<>>, <<>>>>

ListOfSet(xs) == Flatten(SetFromList(xs, EmptyTable))

----------------------------------------------------------------------------
(* The steps of the script as functions of its values.                     *)

\* An event is the tuple (gtid, start, end, name) of line 26.

\* line 26 with a field that is no integer read as 0
RowEventLenient(row) ==
  LET field(i) == IF Len(row) >= i + 1 THEN ParseInt(row[i + 1])
                  ELSE [ok |-> FALSE, val |-> 0]
  IN  IF Len(row) < 6 THEN [exc |-> "IndexError", val |-> <<0, 0, 0, <<>>>>]
      ELSE [exc |-> "",
            val |-> <<field(1).val, field(2).val, field(3).val, row[6]>>]

\* The tuple appended at line 26 for one 'taskdebug' row, or the exception
\* raised: the four expressions are evaluated from left to right.
RowEvent(row) ==
  LET field(i) == IF Len(row) >= i + 1 THEN ParseInt(row[i + 1])
                  ELSE [ok |-> FALSE, val |-> 0]
      raised(i) == IF Len(row) < i + 1 THEN "IndexError" ELSE "ValueError"
      none == <<0, 0, 0, <<>>>>
  IN  IF ~field(1).ok THEN [exc |-> raised(1), val |-> none]
      ELSE IF ~field(2).ok THEN [exc |-> raised(2), val |-> none]
      ELSE IF ~field(3).ok THEN [exc |-> raised(3), val |-> none]
      ELSE IF Len(row) < 6 THEN [exc |-> "IndexError", val |-> none]
      ELSE [exc |-> "",
            val |-> <<field(1).val, field(2).val, field(3).val, row[6]>>]

\* the test without the tag
IsTaskRowAnyTag(row) == Len(row) > 0

\* row[0] == 'taskdebug' of a non-empty row
IsTaskRow(row) == Len(row) > 0 /\ row[1] = "taskdebug"

\* the key of lines 30 and 33: (x[0], x[3])
Key(x) == <<x[1], x[4]>>

\* the order of two such keys, as Python orders tuples
KeyLess(a, b) == a[1] < b[1] \/ (a[1] = b[1] /\ StrLess(a[2], b[2]))

EventLess(x, y) == KeyLess(Key(x), Key(y))

\* itertools.groupby: the maximal runs of consecutive elements of one key,
\* each as ((gtid, name), [events])
RECURSIVE GroupBy(_, _)
GroupBy(seq, acc) ==
  IF seq = <<>> THEN acc
  ELSE LET x == Head(seq)
           n == Len(acc)
       IN  IF n > 0 /\ acc[n][1] = Key(x)
           THEN GroupBy(Tail(seq), [acc EXCEPT ![n][2] = Append(@, x)])
           ELSE GroupBy(Tail(seq), Append(acc, <<Key(x), <<x>>>>))

\* the sort with the gtid alone as key
SortedByGtid(dps) ==
  LET n == Len(dps)
      pos(i) == 1 + Cardinality({j \in 1..n :
                       \/ dps[j][1] < dps[i][1]
                       \/ dps[j][1] = dps[i][1] /\ j < i})
  IN  [p \in 1..n |-> dps[CHOOSE i \in 1..n : pos(i) = p]]

\* list.sort is stable: events whose keys compare equal keep their order
SortedDatapoints(dps) ==
  LET n == Len(dps)
      pos(i) == 1 + Cardinality({j \in 1..n :
                       \/ EventLess(dps[j], dps[i])
                       \/ ~EventLess(dps[i], dps[j]) /\ j < i})
  IN  [p \in 1..n |-> dps[CHOOSE i \in 1..n : pos(i) = p]]

Groups(dps) == GroupBy(dps, <<>>)

\* line 49: the gtids of the groups, through a set
Gtids(gs) == ListOfSet([i \in 1..Len(gs) |-> gs[i][1][1]])

\* lines 70-74 without the test of line 71
percNoGuard(a, aa) ==
  IF Index(aa, a) < 0 THEN [exc |-> "ValueError", val |-> <<0, 1>>]
  ELSE FDiv(<<Index(aa, a), 1>>, <<Len(aa) - 1, 1>>)

\* lines 70-74
perc(a, aa) ==
  IF Len(aa) = 1 THEN [exc |-> "", val |-> <<1, 10>>]
  ELSE IF Index(aa, a) < 0 THEN [exc |-> "ValueError", val |-> <<0, 1>>]
  ELSE FDiv(<<Index(aa, a), 1>>, <<Len(aa) - 1, 1>>)

\* line 77
scale_factor == 1

\* lines 78-88 with the green channel taken from the ends as well
get_colorEndTwice(func, line, end, funcs, lines, ends) ==
  LET r == perc(func, funcs)
      g == perc(end, ends)
      b == perc(end, ends)
  IN  IF r.exc /= "" \/ g.exc /= "" \/ b.exc /= ""
      THEN [exc |-> "ValueError", val |-> <<>>]
      ELSE [exc |-> "", val |-> <<r.val, g.val, b.val, <<1, 1>>>>]

\* lines 78-88, given the three sorted axes
get_color(func, line, end, funcs, lines, ends) ==
  LET r    == perc(func, funcs)
      g    == perc(line, lines)
      b    == perc(end, ends)
      sf   == <<scale_factor, 1>>
      addi == FSub(<<1, 2>>, FDiv(<<1, 2>>, sf).val)
      ch(x) == FAdd(FDiv(x, sf).val, addi)
  IN  IF r.exc /= "" THEN [exc |-> r.exc, val |-> <<>>]
      ELSE IF g.exc /= "" THEN [exc |-> g.exc, val |-> <<>>]
      ELSE IF b.exc /= "" THEN [exc |-> b.exc, val |-> <<>>]
      ELSE [exc |-> "", val |-> <<ch(r.val), ch(g.val), ch(b.val), <<1, 1>>>>]

\* line 93 with 'or' for 'and'
NoLocationEither(line, col) == line = <<"0">> \/ col = <<"0">>

\* line 93: the test that sends a name to the random colour
NoLocation(line, col) == line = <<"0">> /\ col = <<"0">>

\* np.random.rand(3,): three floats of [0, 1); the model draws one of two
\* arrays, the first made of values the rank formula gives as well
RandomRGB == { << <<0, 1>>, <<0, 1>>, <<0, 1>> >>,
               << <<1, 2>>, <<1, 4>>, <<3, 4>> >> }

----------------------------------------------------------------------------
(* The input files of the model.                                           *)

\* A name as the trace writes it: seven fields joined by ';', the first
\* and the sixth blank (line 62).
Label(file, func, line, col, end) ==
  <<";">> \o file \o <<";">> \o func \o <<";">> \o line \o <<";">> \o col
          \o <<";", ";">> \o end

L_f1  == Label(<<"a">>, <<"f">>, <<"1">>, <<"2">>, <<"0">>)
\* L_f1 in another file and column: the same (function, line, end)
L_f1b == Label(<<"b">>, <<"f">>, <<"1">>, <<"3">>, <<"0">>)
L_g2  == Label(<<"a">>, <<"g">>, <<"2">>, <<"1">>, <<"0">>)
\* no source location: line '0' and column '0'
L_f0  == Label(<<"a">>, <<"f">>, <<"0">>, <<"0">>, <<"0">>)
\* column '0' and a line that is 0 without being '0'
L_h00 == Label(<<"a">>, <<"h">>, <<"0", "0">>, <<"0">>, <<"2">>)
\* three fields
L_bad == <<"a", ";", "f", ";", "1">>

TaskRow(gtid, start, end, name) ==
  <<"taskdebug", gtid, start, end, <<"0">>, name>>

RowSet ==
  { TaskRow(<<"1">>, <<"0">>, <<"5">>, L_f1),
    TaskRow(<<" ", "1">>, <<"5">>, <<"9">>, L_f1),
    TaskRow(<<"8">>, <<"7">>, <<"3">>, L_f1),
    TaskRow(<<"2">>, <<"4">>, <<"6">>, L_f1b),
    TaskRow(<<"1">>, <<"2">>, <<"4">>, L_g2),
    TaskRow(<<"8">>, <<"0">>, <<"5">>, L_f0),
    TaskRow(<<"1">>, <<"3">>, <<"3">>, L_h00),
    TaskRow(<<"1">>, <<"0">>, <<"5">>, L_bad),
    TaskRow(<<"x">>, <<"0">>, <<"5">>, L_f1),
    <<"taskdebug", <<"1">>, <<"0">>, <<"5">>>>,
    <<"other", <<"9">>, <<"9">>, <<"9">>, <<"9">>, <<"x">>>>,
    <<>> }

Files == UNION {[1..n -> RowSet] : n \in 0..MaxRows}

----------------------------------------------------------------------------
(* The state of a run.                                                     *)

VARIABLES
  rows,         \* the rows csv.reader gives for the file
  pc,           \* where the run is
  exc,          \* the exception that ended it, "" if none
  k,            \* the number of iterations done of the current loop
  count,        \* line 19
  datapoints,   \* line 17, sorted at line 30
  nameSet,      \* names while it is the set of line 18
  names,        \* names once it is the list of lines 31-32
  groups,       \* line 33
  gtids,        \* line 49
  yticks,       \* line 52
  yticklabels,  \* line 54
  funcSet,      \* funcs, lines and ends while they are the sets of
  lineSet,      \* lines 57-59
  endSet,
  funcs,        \* funcs, lines and ends once they are the sorted lists
  lines,        \* of lines 67-69
  ends,
  mapping,      \* line 90
  bars,         \* the calls of gnt.broken_barh
  legend_data,  \* line 110
  shown         \* plt.show() was reached

vars == <<rows, pc, exc, k, count, datapoints, nameSet, names, groups, gtids,
          yticks, yticklabels, funcSet, lineSet, endSet, funcs, lines, ends,
          mapping, bars, legend_data, shown>>

Init ==
  /\ rows \in Files
  /\ pc = "parse"
  /\ exc = ""
  /\ k = 0
  /\ count = 0
  /\ datapoints = <<>>
  /\ nameSet = {}
  /\ names = <<>>
  /\ groups = <<>>
  /\ gtids = <<>>
  /\ yticks = <<>>
  /\ yticklabels = <<>>
  /\ funcSet = {}
  /\ lineSet = {}
  /\ endSet = {}
  /\ funcs = <<>>
  /\ lines = <<>>
  /\ ends = <<>>
  /\ mapping = <<>>
  /\ bars = <<>>
  /\ legend_data = <<>>
  /\ shown = FALSE

\* lines 23-27: one iteration of the loop over the rows
ReadRow ==
  /\ pc = "parse"
  /\ count < Len(rows)
  /\ LET row == rows[count + 1]
         ev  == RowEvent(row)
     IN  /\ count' = count + 1
         /\ IF ~IsTaskRow(row)
            THEN UNCHANGED <<pc, exc, datapoints, nameSet>>
            ELSE IF ev.exc /= ""
            THEN /\ pc' = "error"
                 /\ exc' = ev.exc
                 /\ UNCHANGED <<datapoints, nameSet>>
            ELSE /\ datapoints' = Append(datapoints, ev.val)
                 /\ nameSet' = nameSet \cup {ev.val[4]}
                 /\ UNCHANGED <<pc, exc>>
  /\ UNCHANGED <<rows, k, names, groups, gtids, yticks, yticklabels, funcSet,
                 lineSet, endSet, funcs, lines, ends, mapping, bars,
                 legend_data, shown>>

\* lines 29-59, after the last row: sort, group, set up the axes
Prepare ==
  /\ pc = "parse"
  /\ count = Len(rows)
  /\ datapoints' = SortedDatapoints(datapoints)
  /\ names' = SortStrs(nameSet)
  /\ groups' = Groups(datapoints')
  /\ gtids' = Gtids(groups')
  /\ yticks' = [i \in 1..Len(gtids') |-> FAdd(<<i - 1, 1>>, <<1, 2>>)]
  /\ yticklabels' = [i \in 1..Len(gtids') |-> IntStr(gtids'[i])]
  /\ funcSet' = {}
  /\ lineSet' = {}
  /\ endSet' = {}
  /\ k' = 0
  /\ pc' = "decode"
  /\ UNCHANGED <<rows, exc, count, nameSet, funcs, lines, ends, mapping, bars,
                 legend_data, shown>>

\* lines 61-65: one iteration of the loop over the names
DecodeLabel ==
  /\ pc = "decode"
  /\ k < Len(names)
  /\ LET parts == Split(names[k + 1], ";")
         line  == ParseInt(parts[4])
         end   == ParseInt(parts[7])
     IN  IF Len(parts) /= 7
         THEN /\ pc' = "error"
              /\ exc' = "ValueError"
              /\ UNCHANGED <<k, funcSet, lineSet, endSet>>
         ELSE /\ funcSet' = funcSet \cup {parts[3]}
              /\ lineSet' = IF line.ok THEN lineSet \cup {line.val}
                            ELSE lineSet
              /\ endSet' = IF line.ok /\ end.ok THEN endSet \cup {end.val}
                           ELSE endSet
              /\ IF line.ok /\ end.ok
                 THEN /\ k' = k + 1
                      /\ UNCHANGED <<pc, exc>>
                 ELSE /\ pc' = "error"
                      /\ exc' = "ValueError"
                      /\ UNCHANGED k
  /\ UNCHANGED <<rows, count, datapoints, nameSet, names, groups, gtids,
                 yticks, yticklabels, funcs, lines, ends, mapping, bars,
                 legend_data, shown>>

\* lines 67-90, after the last name: the sorted axes, the empty mapping
SortAxes ==
  /\ pc = "decode"
  /\ k = Len(names)
  /\ funcs' = SortStrs(funcSet)
  /\ lines' = SortInts(lineSet)
  /\ ends' = SortInts(endSet)
  /\ mapping' = <<>>
  /\ k' = 0
  /\ pc' = IF Len(names) = 0 THEN "draw" ELSE "map"
  /\ UNCHANGED <<rows, exc, count, datapoints, nameSet, names, groups, gtids,
                 yticks, yticklabels, funcSet, lineSet, endSet, bars,
                 legend_data, shown>>

\* the colour line 94 or line 96 gives the name n, rnd being what
\* np.random.rand returns
ColorOf(n, rnd) ==
  LET parts == Split(n, ";")
  IN  IF Len(parts) /= 7 THEN [exc |-> "ValueError", val |-> <<>>]
      ELSE IF NoLocation(parts[4], parts[5]) THEN [exc |-> "", val |-> rnd]
      ELSE IF ~ParseInt(parts[4]).ok \/ ~ParseInt(parts[7]).ok
           THEN [exc |-> "ValueError", val |-> <<>>]
      ELSE get_color(parts[3], ParseInt(parts[4]).val, ParseInt(parts[7]).val,
                     funcs, lines, ends)

\* whether line 93 sends n to np.random.rand
DrawsRandom(n) ==
  LET parts == Split(n, ";")
  IN  Len(parts) = 7 /\ NoLocation(parts[4], parts[5])

\* lines 91-96: one iteration of the loop that fills the mapping
MapLabel ==
  /\ pc = "map"
  /\ k < Len(names)
  /\ LET n == names[k + 1]
     IN  \E rnd \in IF DrawsRandom(n) THEN RandomRGB ELSE {<<>>} :
           LET c == ColorOf(n, rnd)
           IN  IF c.exc /= ""
               THEN /\ pc' = "error"
                    /\ exc' = c.exc
                    /\ UNCHANGED <<k, mapping>>
               ELSE /\ mapping' = DictSet(mapping, n, c.val)
                    /\ k' = IF k + 1 = Len(names) THEN 0 ELSE k + 1
                    /\ pc' = IF k + 1 = Len(names) THEN "draw" ELSE "map"
                    /\ UNCHANGED exc
  /\ UNCHANGED <<rows, count, datapoints, nameSet, names, groups, gtids,
                 yticks, yticklabels, funcSet, lineSet, endSet, funcs, lines,
                 ends, bars, legend_data, shown>>

\* lines 101-108 with (start, end) for (start, end - start)
BarCallEnd(g) ==
  LET group == g[2]
      off   == FDiv(<<Index(names, g[1][2]), 1>>, <<Len(names) * 4, 1>>)
  IN  [exc |-> "",
       val |-> [xranges |-> [i \in 1..Len(group) |->
                               <<group[i][2], group[i][3]>>],
                yrange |-> <<FAdd(<<Index(gtids, g[1][1]), 1>>, off.val),
                             <<3, 4>>>>,
                facecolors |-> [i \in 1..Len(group) |->
                                  DictGet(mapping, group[i][4])]]]

\* lines 101-108 with the offset names.index(name) / len(names)
BarCallWide(g) ==
  LET group == g[2]
      off   == FDiv(<<Index(names, g[1][2]), 1>>, <<Len(names), 1>>)
  IN  [exc |-> "",
       val |-> [xranges |-> [i \in 1..Len(group) |->
                               <<group[i][2], group[i][3] - group[i][2]>>],
                yrange |-> <<FAdd(<<Index(gtids, g[1][1]), 1>>, off.val),
                             <<3, 4>>>>,
                facecolors |-> [i \in 1..Len(group) |->
                                  DictGet(mapping, group[i][4])]]]

\* the arguments of the broken_barh call of lines 101-108 for one group
BarCall(g) ==
  LET gtid  == g[1][1]
      name  == g[1][2]
      group == g[2]
      off   == FDiv(<<Index(names, name), 1>>, <<Len(names) * 4, 1>>)
  IN  IF Index(gtids, gtid) < 0 \/ Index(names, name) < 0
      THEN [exc |-> "ValueError", val |-> <<>>]
      ELSE IF off.exc /= "" THEN [exc |-> off.exc, val |-> <<>>]
      ELSE IF \E i \in 1..Len(group) : group[i][4] \notin Range(DictKeys(mapping))
      THEN [exc |-> "KeyError", val |-> <<>>]
      ELSE [exc |-> "",
            val |-> [xranges |-> [i \in 1..Len(group) |->
                                    <<group[i][2], group[i][3] - group[i][2]>>],
                     yrange |-> <<FAdd(<<Index(gtids, gtid), 1>>, off.val),
                                  <<3, 4>>>>,
                     facecolors |-> [i \in 1..Len(group) |->
                                       DictGet(mapping, group[i][4])]]]

\* lines 99-108: one iteration of the loop over the groups
DrawGroup ==
  /\ pc = "draw"
  /\ k < Len(groups)
  /\ LET call == BarCall(groups[k + 1])
     IN  IF call.exc /= ""
         THEN /\ pc' = "error"
              /\ exc' = call.exc
              /\ UNCHANGED <<k, bars>>
         ELSE /\ bars' = Append(bars, call.val)
              /\ k' = k + 1
              /\ UNCHANGED <<pc, exc>>
  /\ UNCHANGED <<rows, count, datapoints, nameSet, names, groups, gtids,
                 yticks, yticklabels, funcSet, lineSet, endSet, funcs, lines,
                 ends, mapping, legend_data, shown>>

\* lines 110-113 with a patch per group
LegendPerGroup ==
  /\ pc = "draw"
  /\ k = Len(groups)
  /\ legend_data' = [i \in 1..Len(groups) |->
                       [color |-> DictGet(mapping, groups[i][1][2]),
                        label |-> groups[i][1][2]]]
  /\ pc' = "show"
  /\ UNCHANGED <<rows, exc, k, count, datapoints, nameSet, names, groups,
                 gtids, yticks, yticklabels, funcSet, lineSet, endSet, funcs,
                 lines, ends, mapping, bars, shown>>

\* lines 110-113, after the last group: a patch per item of the mapping
Legend ==
  /\ pc = "draw"
  /\ k = Len(groups)
  /\ legend_data' = [i \in 1..Len(mapping) |->
                       [color |-> mapping[i][2], label |-> mapping[i][1]]]
  /\ pc' = "show"
  /\ UNCHANGED <<rows, exc, k, count, datapoints, nameSet, names, groups,
                 gtids, yticks, yticklabels, funcSet, lineSet, endSet, funcs,
                 lines, ends, mapping, bars, shown>>

\* line 115
Show ==
  /\ pc = "show"
  /\ shown' = TRUE
  /\ pc' = "done"
  /\ UNCHANGED <<rows, exc, k, count, datapoints, nameSet, names, groups,
                 gtids, yticks, yticklabels, funcSet, lineSet, endSet, funcs,
                 lines, ends, mapping, bars, legend_data>>

Next ==
  \/ ReadRow
  \/ Prepare
  \/ DecodeLabel
  \/ SortAxes
  \/ MapLabel
  \/ DrawGroup
  \/ Legend
  \/ Show

Spec == Init /\ [][Next]_vars

----------------------------------------------------------------------------
(* What the file holds, read off the rows themselves.                      *)

Tagged(row) == Len(row) > 0 /\ row[1] = "taskdebug"

\* the tagged rows among the first n rows, in file order
TaggedRows(n) == SelectSeq(SubSeq(rows, 1, n), Tagged)

\* (int(field 1), int(field 2), int(field 3), field 5) of a tagged row
EventOf(row) ==
  <<ParseInt(row[2]).val, ParseInt(row[3]).val, ParseInt(row[4]).val, row[6]>>

\* the events of the first n rows, in file order
FileEvents(n) ==
  LET t == TaggedRows(n) IN [i \in 1..Len(t) |-> EventOf(t[i])]

FileLabels(n) ==
  LET t == TaggedRows(n) IN {t[i][6] : i \in 1..Len(t)}

\* the run is past line 33: the file was read whole, without an exception
Grouped == pc \in {"decode", "map", "draw", "show", "done"}

\* the run is past line 96
Mapped == pc \in {"draw", "show", "done"}

\* the run is past line 108
Drawn == pc \in {"show", "done"}

----------------------------------------------------------------------------
\* C1: as long as no row has made the parse fail, datapoints holds one
\* event per row read so far whose first field is 'taskdebug', in file
\* order, each (int(field 1), int(field 2), int(field 3), field 5), and
\* the set names holds the labels of those rows and nothing else: empty rows and
\* rows with another first field add neither an event nor a label.
C1_ParsedEvents ==
  pc = "parse" =>
    LET t == TaggedRows(count)
    IN  /\ Len(datapoints) = Len(t)
        /\ \A i \in 1..Len(t) :
             /\ Len(t[i]) >= 6
             /\ \A f \in 2..4 : ParseInt(t[i][f]).ok
             /\ datapoints[i] = EventOf(t[i])
        /\ nameSet = {t[i][6] : i \in 1..Len(t)}

\* a file read to its end: a tagged row, an untagged row, an empty row and
\* a tagged row whose gtid is written ' 1'
C1_Witness ==
  /\ pc = "parse"
  /\ count = Len(rows)
  /\ \E i, j \in 1..Len(rows) : rows[i] = <<>> /\ Len(rows[j]) > 0
                                /\ rows[j][1] = "other"
  /\ datapoints = <<<<1, 5, 9, L_f1>>>>
  /\ nameSet = {L_f1}

----------------------------------------------------------------------------
\* a tagged row with fewer than 6 fields or a field 1-3 that is no integer
BadRow(row) ==
  Tagged(row) /\ (Len(row) < 6 \/ \E f \in 2..4 : ~ParseInt(row[f]).ok)

\* a tagged row whose label does not split on ';' into exactly 7 parts
BadLabelRow(row) ==
  Tagged(row) /\ Len(row) >= 6 /\ Len(Split(row[6], ";")) /= 7

Malformed == \E i \in 1..Len(rows) : BadRow(rows[i]) \/ BadLabelRow(rows[i])

\* C2: when the file holds a malformed tagged row or a label that does not
\* split into 7 parts, the run never gets past the decoding of the labels:
\* it is inside the loop over the rows or the loop over the names, or it
\* has stopped with a ValueError or an IndexError; no broken_barh call was
\* made, no legend entry exists and plt.show() was not reached.  (Written
\* as "the run is in such a state, or the file is not malformed".)
C2_AbortNoChart ==
  \/ /\ pc \in {"parse", "decode", "error"}
     /\ pc = "parse" => count <= Len(rows)
     /\ pc = "decode" => k <= Len(names)
     /\ pc = "error" => exc \in {"ValueError", "IndexError"}
     /\ bars = <<>>
     /\ legend_data = <<>>
     /\ ~shown
  \/ ~Malformed

\* a run stopped by a three-part label, after its three rows were read,
\* sorted and grouped and the ticks were set
C2_Witness ==
  /\ Malformed
  /\ pc = "error"
  /\ exc = "ValueError"
  /\ Len(datapoints) = 3
  /\ Len(groups) >= 2
  /\ yticklabels /= <<>>
  /\ \A i \in 1..Len(rows) : ~BadRow(rows[i])

\* C3: once the events are sorted and grouped there is exactly one group
\* per key (gtid, name) of the file's events: no key heads two groups, each
\* group holds all the events of its key and no other, in the order the
\* file has them, whatever the order of the rows.
C3_OneGroupPerKey ==
  Grouped =>
    LET E == FileEvents(Len(rows))
    IN  /\ \A a, b \in 1..Len(groups) :
             a /= b => groups[a][1] /= groups[b][1]
        /\ \A a \in 1..Len(groups) :
             LET OfKey(x) == <<x[1], x[4]>> = groups[a][1]
             IN  /\ groups[a][2] /= <<>>
                 /\ groups[a][2] = SelectSeq(E, OfKey)
        /\ \A i \in 1..Len(E) :
             \E a \in 1..Len(groups) : groups[a][1] = <<E[i][1], E[i][4]>>

\* two events of one key with an event of another key between them in the
\* file, the later start first: they share a group, in file order
C3_Witness ==
  /\ Grouped
  /\ LET E == FileEvents(Len(rows))
     IN  /\ Len(E) = 3
         /\ E[1] = <<1, 5, 9, L_f1>>
         /\ E[2][1] = 8
         /\ E[3] = <<1, 0, 5, L_f1>>
  /\ Len(groups) = 2
  /\ groups[1] = <<<<1, L_f1>>, <<<<1, 5, 9, L_f1>>, <<1, 0, 5, L_f1>>>>>>

----------------------------------------------------------------------------
(* The names of the file and their fields.                                 *)

AllLabels == FileLabels(Len(rows))

\* the fields of a name that the colours depend on; located: the line and
\* column fields are not both the literal '0'
Decode(n) ==
  LET parts == Split(n, ";")
  IN  [func    |-> parts[3],
       line    |-> ParseInt(parts[4]).val,
       end     |-> ParseInt(parts[7]).val,
       located |-> ~(parts[4] = <<"0">> /\ parts[5] = <<"0">>)]

\* the rank of a value among the distinct values S of its axis, below
\* being those of S that are smaller: 1/10 on an axis of one value, else
\* (number of smaller values) / (number of values - 1)
RankAmong(below, S) ==
  IF Cardinality(S) = 1 THEN <<1, 10>>
  ELSE Frac(Cardinality(below), Cardinality(S) - 1)

\* the colour the ranks of (function, line, end) of the decoded name d give
\* among the decoded names D
RankColor(d, D) ==
  LET F == {x.func : x \in D}
      L == {x.line : x \in D}
      E == {x.end : x \in D}
  IN  << RankAmong({f \in F : StrLess(f, d.func)}, F),
         RankAmong({l \in L : l < d.line}, L),
         RankAmong({e \in E : e < d.end}, E),
         <<1, 1>> >>

\* the decoded names of the file
AllDecoded == {Decode(n) : n \in AllLabels}

\* C4: on each of the three sorted axes, as the loop that fills the mapping
\* finds them (they are not assigned again), the values are distinct and in
\* increasing order, and perc gives the value at position i (from 0) of an
\* axis of n values the rank 0.1 when n = 1 and i/(n-1) otherwise, a number
\* of [0, 1] that is 0 for the smallest value and 1 for the largest; no
\* run ends with a ZeroDivisionError.
C4_RankNormalised ==
  /\ exc /= "ZeroDivisionError"
  /\ pc = "map" =>
       /\ \A i \in 1..(Len(funcs) - 1) : StrLess(funcs[i], funcs[i + 1])
       /\ \A i \in 1..(Len(lines) - 1) : lines[i] < lines[i + 1]
       /\ \A i \in 1..(Len(ends) - 1) : ends[i] < ends[i + 1]
       /\ \A ax \in 1..3 :
            LET n == Len(<<funcs, lines, ends>>[ax])
                p(i) == CASE ax = 1 -> perc(funcs[i], funcs)
                          [] ax = 2 -> perc(lines[i], lines)
                          [] ax = 3 -> perc(ends[i], ends)
            IN  \A i \in 1..n :
                  /\ p(i).exc = ""
                  /\ p(i).val[2] > 0
                  /\ 0 <= p(i).val[1] /\ p(i).val[1] <= p(i).val[2]
                  /\ n = 1 => p(i).val = <<1, 10>>
                  /\ n > 1 => /\ p(i).val[1] * (n - 1) = (i - 1) * p(i).val[2]
                              /\ i = 1 => p(i).val = <<0, 1>>
                              /\ i = n => p(i).val = <<1, 1>>

\* an axis of one value beside an axis of three, after a colour was
\* computed from them
C4_Witness ==
  /\ pc = "map"
  /\ k = 2
  /\ Len(ends) = 1
  /\ Len(lines) = 3
  /\ perc(lines[2], lines).val = <<1, 2>>
  /\ perc(ends[1], ends).val = <<1, 10>>
  /\ \E i \in 1..Len(mapping) : Len(mapping[i][2]) = 4

\* C5: once the mapping is built, two names with the same (function, line,
\* end) whose line and column are not both '0' have the same colour, and
\* the colour of every such name is the one its three ranks among the
\* values of the file give, with alpha 1: nothing a run draws enters it.
C5_SameIdentitySameColor ==
  (Mapped /\ mapping /= <<>>) =>
    LET D == AllDecoded
        d == [i \in 1..Len(mapping) |-> Decode(mapping[i][1])] \o <<>>
    IN  /\ \A i, j \in 1..Len(mapping) :
             ( /\ d[i].located /\ d[j].located
               /\ d[i].func = d[j].func
               /\ d[i].line = d[j].line
               /\ d[i].end = d[j].end ) => mapping[i][2] = mapping[j][2]
        /\ \A i \in 1..Len(mapping) :
             d[i].located =>
               /\ mapping[i][2] = RankColor(d[i], D)
               /\ mapping[i][2][4] = <<1, 1>>

\* the same function, line and end in two files and columns, beside a
\* third name and a name that draws a random colour
C5_Witness ==
  /\ Mapped
  /\ Len(mapping) = 3
  /\ \E i, j \in 1..3 :
       /\ mapping[i][1] = L_f1
       /\ mapping[j][1] = L_f1b
       /\ mapping[i][2] = <<<<0, 1>>, <<0, 1>>, <<1, 10>>, <<1, 1>>>>
       /\ mapping[j][2] = mapping[i][2]
  /\ \E i \in 1..3 : mapping[i][1] = L_g2

\* C6: at any time, a name in the mapping whose line field is '0' and
\* whose column field is '0' holds the three-channel array of
\* np.random.rand, which is not the colour its ranks give; any other name
\* holds the colour its ranks give, four channels with alpha 1, and never a
\* random array.
C6_RandomOnlyWithoutLocation ==
  mapping /= <<>> =>
    LET D == AllDecoded
    IN  \A i \in 1..Len(mapping) :
          LET c == mapping[i][2]
              parts == Split(mapping[i][1], ";")
              formula == RankColor(Decode(mapping[i][1]), D)
          IN  IF parts[4] = <<"0">> /\ parts[5] = <<"0">>
              THEN /\ Len(c) = 3
                   /\ \A ch \in 1..3 : 0 <= c[ch][1] /\ c[ch][1] < c[ch][2]
                   /\ c /= formula
              ELSE /\ Len(c) = 4
                   /\ c = formula

\* a name without location beside a name with line '00' and column '0';
\* the random array has the very channels the ranks of the first name give
C6_Witness ==
  /\ Mapped
  /\ Len(mapping) = 3
  /\ \E i, j \in 1..3 :
       /\ mapping[i][1] = L_f0
       /\ mapping[i][2] = << <<0, 1>>, <<0, 1>>, <<0, 1>> >>
       /\ RankColor(Decode(L_f0), AllDecoded)
            = << <<0, 1>>, <<0, 1>>, <<0, 1>>, <<1, 1>> >>
       /\ mapping[j][1] = L_h00
       /\ Len(mapping[j][2]) = 4

\* C7: before the legend is built there is no legend entry; once it is
\* built it holds one entry per item of the mapping, in the order of the
\* mapping and with its colour, no label twice, and the keys of the mapping
\* are the distinct labels of the file's events, so that there are as many
\* entries as distinct labels.
C7_LegendPerLabel ==
  /\ ~Drawn => legend_data = <<>>
  /\ Drawn =>
       /\ Len(legend_data) = Len(mapping)
       /\ \A i \in 1..Len(legend_data) :
            /\ legend_data[i].label = mapping[i][1]
            /\ legend_data[i].color = mapping[i][2]
       /\ \A i, j \in 1..Len(legend_data) :
            i /= j => legend_data[i].label /= legend_data[j].label
       /\ {mapping[i][1] : i \in 1..Len(mapping)} = AllLabels
       /\ Len(legend_data) = Cardinality(AllLabels)
       /\ DictKeys(mapping) = names

\* three events in three groups that share two labels
C7_Witness ==
  /\ pc = "done"
  /\ Len(FileEvents(Len(rows))) = 3
  /\ Len(groups) = 3
  /\ Len(legend_data) = 2
  /\ legend_data[1].label = L_f0
  /\ legend_data[2].label = L_f1

\* C8: the i-th broken_barh call draws the i-th group: one segment
\* (start, end - start) per event of the group, in order, each with the
\* colour the mapping holds for the label of its event.  After the loop
\* there is one call per group, the segments are as many as the events of
\* the file and every event of the file is drawn as often as the file holds
\* it; an event that ends before it starts is drawn with a negative width.
C8_EveryEventOneSegment ==
  /\ Len(bars) <= Len(groups)
  /\ \A i \in 1..Len(bars) :
       LET group == groups[i][2]
       IN  /\ Len(bars[i].xranges) = Len(group)
           /\ Len(bars[i].facecolors) = Len(group)
           /\ \A j \in 1..Len(group) :
                /\ bars[i].xranges[j] = <<group[j][2], group[j][3] - group[j][2]>>
                /\ \E m \in 1..Len(mapping) :
                     /\ mapping[m][1] = group[j][4]
                     /\ bars[i].facecolors[j] = mapping[m][2]
  /\ Drawn =>
       LET E == FileEvents(Len(rows))
           drawn(e) == {<<i, j>> \in (1..Len(bars)) \X (1..Len(E)) :
                          j <= Len(groups[i][2]) /\ groups[i][2][j] = e}
       IN  /\ Len(bars) = Len(groups)
           /\ \A e \in Range(E) :
                Cardinality(drawn(e)) = Cardinality({i \in 1..Len(E) : E[i] = e})
           /\ Cardinality({<<i, j>> \in (1..Len(bars)) \X (1..Len(E)) :
                             j <= Len(bars[i].xranges)}) = Len(E)

\* three events in two groups, one of them from 7 to 3
C8_Witness ==
  /\ Drawn
  /\ Len(FileEvents(Len(rows))) = 3
  /\ Len(bars) = 2
  /\ Len(bars[1].xranges) = 2
  /\ bars[2].xranges = <<<<7, 0 - 4>>>>

\* C10: the i-th call places its bar at row + rank/(4N), 0.75 high, where
\* row is the index of the group's gtid in gtids, N the number of distinct
\* labels of the file and rank the number of them that sort before the
\* group's label.  The offset is in [0, 1/4), so the top of the bar stays
\* below row + 1, and two calls for one gtid start at different heights.
C10_SubRowOffset ==
  bars /= <<>> =>
    LET labels == AllLabels
    IN  \A i \in 1..Len(bars) :
          LET gtid == groups[i][1][1]
              name == groups[i][1][2]
              row  == <<Index(gtids, gtid), 1>>
              y    == bars[i].yrange[1]
              off  == FSub(y, row)
              rank == Cardinality({l \in labels : StrLess(l, name)})
          IN  /\ row[1] >= 0
              /\ bars[i].yrange[2] = <<3, 4>>
              /\ off = Frac(rank, Cardinality(labels) * 4)
              /\ FLeq(<<0, 1>>, off) /\ FLess(off, <<1, 4>>)
              /\ FLess(FAdd(y, bars[i].yrange[2]), FAdd(row, <<1, 1>>))
              /\ \A j \in 1..Len(bars) :
                   (j /= i /\ groups[j][1][1] = gtid) => bars[j].yrange[1] /= y

\* three labels on one gtid: the offsets 0, 1/12 and 2/12
C10_Witness ==
  /\ Len(bars) = 3
  /\ Len(gtids) = 1
  /\ bars[1].yrange[1] = <<0, 1>>
  /\ bars[2].yrange[1] = <<1, 12>>
  /\ bars[3].yrange[1] = <<1, 6>>

\* the integer row of the i-th bar: the whole part of its lower edge
RowOfBar(i) == bars[i].yrange[1][1] \div bars[i].yrange[1][2]

\* the distinct gtids of the file's events
AllGtids ==
  LET E == FileEvents(Len(rows)) IN {E[i][1] : i \in 1..Len(E)}

\* C9: every bar is drawn on the integer row that is the position of its
\* gtid among the distinct gtids of the file in ascending order, so that
\* the groups of one gtid share a row and distinct gtids have distinct rows
\* 0..n-1; there is one tick label per distinct gtid, and the label at the
\* row of a bar is the str of the bar's gtid.
C9_RowIsAscendingRank ==
  bars /= <<>> =>
    /\ Len(yticklabels) = Cardinality(AllGtids)
    /\ \A i \in 1..Len(bars) :
         LET gtid == groups[i][1][1]
         IN  /\ RowOfBar(i) = Cardinality({w \in AllGtids : w < gtid})
             /\ yticklabels[RowOfBar(i) + 1] = IntStr(gtid)

\* What does hold of the rows: the row of a bar is the index of its gtid in
\* gtids, which lists each distinct gtid once, so the groups of one gtid
\* share a row, distinct gtids have distinct rows of 0..n-1, and tick i,
\* at height i + 0.5, is labelled with the gtid drawn on row i.
RowsMatchTicks ==
  Grouped =>
    /\ Len(gtids) = Cardinality(AllGtids)
    /\ Range(gtids) = AllGtids
    /\ Len(yticks) = Len(gtids)
    /\ Len(yticklabels) = Len(gtids)
    /\ \A r \in 1..Len(gtids) :
         /\ yticks[r] = <<2 * r - 1, 2>>
         /\ yticklabels[r] = IntStr(gtids[r])
    /\ \A i \in 1..Len(bars) :
         /\ RowOfBar(i) \in 0..(Len(gtids) - 1)
         /\ gtids[RowOfBar(i) + 1] = groups[i][1][1]

====
